---- MODULE Spec2Model ----
(***************************************************************************)
(* Model of src/nanopore.py (Nano-Align): the affine-gap global aligner    *)
(* glob_affine_gap, the gap interpolator fill_gaps, the projection         *)
(* fit_to_model and the model-signal builder theoretical_signal.           *)
(*                                                                         *)
(* The source is Python 2 (xrange, list-returning map, python2.7 shebang   *)
(* in identify.py, no "from __future__ import division"), so "/" between   *)
(* two ints is floor division.                                             *)
(*                                                                         *)
(* Signal samples are modelled as integers counting tenths (1 is 0.1), so  *)
(* the match lambda 100 * (0.1 - abs(p1 - p2)) is 10 - 10 * |p1 - p2|.     *)
(* Residue volumes are integers counting 1e-4 (A is 915, G is 664).        *)
(***************************************************************************)
EXTENDS Integers, Sequences, FiniteSets, TLC

VARIABLES
    \* glob_affine_gap / fit_to_model
    caller, seq1, seq2, gap_open, gap_ext, match_fun,
    pc, mats, i, j, cur_mat, res1, res2, steps, score, result, trimmed_event,
    \* fill_gaps
    alignment, res, open_gap, fi, fpc,
    \* theoretical_signal
    peptide, window_size, signal, si, spc

alignVars == <<caller, seq1, seq2, gap_open, gap_ext, match_fun,
               pc, mats, i, j, cur_mat, res1, res2, steps, score, result,
               trimmed_event>>
fillVars == <<alignment, res, open_gap, fi, fpc>>
sigVars == <<peptide, window_size, signal, si, spc>>
vars == <<alignVars, fillVars, sigVars>>

(***************************************************************************)
(* Bounds of the model and encodings of Python values.                     *)
(***************************************************************************)
\* Longest seq1 / seq2 given to glob_affine_gap.
MaxLen == 3
\* Longest gap-annotated row given to fill_gaps on its own.
MaxFillLen == 4
\* Longest peptide and widest window given to theoretical_signal.
MaxPeptide == 3
MaxWindow == 3

\* Python's None (the gap marker); every real sample of the model is >= 0.
None == -1
\* float("-inf"); every finite score of the model is far above it.
NegInf == -1000000

\* Samples of the traces that are aligned (0.1 and 0.3).
Vals == {1, 3}
\* Samples of the rows that are gap-filled (2.0, 5.0, 8.0 of the examples).
FillVals == {2, 5, 8}

SeqsUpTo(S, n) == UNION {[1..k -> S] : k \in 0..n}

Abs(x) == IF x < 0 THEN -x ELSE x
Min2(a, b) == IF a < b THEN a ELSE b
Max2(a, b) == IF a > b THEN a ELSE b

\* list[::-1]
Reverse(s) == [k \in 1..Len(s) |-> s[Len(s) + 1 - k]]

\* Python indexing of a container of n items: k in [-n, n) is valid and a
\* negative k counts from the end; anything else raises IndexError.
InRange(k, n) == k >= -n /\ k < n
PyIdx(k, n) == IF k < 0 THEN k + n ELSE k
PyGet(s, k) == s[PyIdx(k, Len(s)) + 1]

\* float addition with -inf: -inf + finite = -inf.
Add(a, b) == IF a = NegInf \/ b = NegInf THEN NegInf ELSE a + b

\* max(lst) of a three-element list, and lst.index(v): the FIRST position.
Max3(l) == Max2(l[1], Max2(l[2], l[3]))
IndexOf(l, v) == IF l[1] = v THEN 0 ELSE IF l[2] = v THEN 1 ELSE 2

(***************************************************************************)
(* match_fun: the lambda of fit_to_model / alignment, and other functions  *)
(* a caller of glob_affine_gap may pass.                                   *)
(***************************************************************************)
\* match = lambda p1, p2: 100 * (0.1 - abs(p1 - p2)), in tenths.
match(p1, p2) == 10 - 10 * Abs(p1 - p2)

MatchFuns == {"match", "unit", "offdiag", "diff"}
Symmetric == {"match", "unit", "offdiag"}

Apply(f, p, q) ==
    CASE f = "match" -> match(p, q)
      [] f = "unit" -> 1
      [] f = "offdiag" -> IF p = q THEN 1 ELSE 5
      [] f = "diff" -> p - q

\* (gap_open, gap_ext) pairs: fit_to_model's, alignment's, one with
\* gap_open > gap_ext, and one that is not negative.
Penalties == {<<-2, -1>>, <<-4, -3>>, <<-1, -3>>, <<1, 0>>}

(***************************************************************************)
(* glob_affine_gap: matrices, boundary, recurrences.                       *)
(***************************************************************************)
\* np.ones((len1 + 1, len2 + 1)) * v
Matrix(len1, len2, v) == [a \in 0..len1 |-> [b \in 0..len2 |-> v]]

\* s_x[i][0] = gap_open + (i - 1) * gap_ext for i in xrange(len1 + 1), and the
\* same for s_y[0][i]; the loops start at 0.
boundary(k, go, ge) == go + (k - 1) * ge

\* Mutant: the b_x boundary left at np.zeros' 0.
b_x_unset(k) == 0

\* b_x[i][0] = 1 and b_y[0][i] = 2
b_x_boundary(k) == 1
b_y_boundary(k) == 2

\* Lines 126-142: allocation, s_m[0][0] = 0 and the two boundary loops.
InitMatrices(len1, len2, go, ge) ==
    [s_m |-> [Matrix(len1, len2, NegInf) EXCEPT ![0][0] = 0],
     s_x |-> [a \in 0..len1 |-> [b \in 0..len2 |->
                 IF b = 0 THEN boundary(a, go, ge) ELSE NegInf]],
     s_y |-> [a \in 0..len1 |-> [b \in 0..len2 |->
                 IF a = 0 THEN boundary(b, go, ge) ELSE NegInf]],
     b_m |-> Matrix(len1, len2, 0),
     b_x |-> [a \in 0..len1 |-> [b \in 0..len2 |->
                 IF b = 0 THEN b_x_boundary(a) ELSE 0]],
     b_y |-> [a \in 0..len1 |-> [b \in 0..len2 |->
                 IF a = 0 THEN b_y_boundary(b) ELSE 0]]]

\* Mutant: the diagonal predecessor of M taken without the match score.
lst_m_nodelta(m, a, b, delta) ==
    <<m.s_m[a - 1][b - 1],
      Add(m.s_x[a - 1][b - 1], delta),
      Add(m.s_y[a - 1][b - 1], delta)>>
\* Mutant: extending a gap in seq1's row charged gap_open, not gap_ext.
lst_y_open_only(m, a, b, go, ge) ==
    <<Add(m.s_m[a][b - 1], go),
      Add(m.s_x[a][b - 1], go),
      Add(m.s_y[a][b - 1], go)>>

\* The three candidate lists of a cell.
lst_m(m, a, b, delta) ==
    <<Add(m.s_m[a - 1][b - 1], delta),
      Add(m.s_x[a - 1][b - 1], delta),
      Add(m.s_y[a - 1][b - 1], delta)>>
lst_x(m, a, b, go, ge) ==
    <<Add(m.s_m[a - 1][b], go),
      Add(m.s_x[a - 1][b], ge),
      Add(m.s_y[a - 1][b], go)>>
lst_y(m, a, b, go, ge) ==
    <<Add(m.s_m[a][b - 1], go),
      Add(m.s_x[a][b - 1], go),
      Add(m.s_y[a][b - 1], ge)>>

\* Lines 146-164: one cell of the nested loop.
FillCell(m, s1, s2, go, ge, f, a, b) ==
    LET delta == Apply(f, s1[a], s2[b])
        lm == lst_m(m, a, b, delta)
        lx == lst_x(m, a, b, go, ge)
        ly == lst_y(m, a, b, go, ge)
    IN  [s_m |-> [m.s_m EXCEPT ![a][b] = Max3(lm)],
         s_x |-> [m.s_x EXCEPT ![a][b] = Max3(lx)],
         s_y |-> [m.s_y EXCEPT ![a][b] = Max3(ly)],
         b_m |-> [m.b_m EXCEPT ![a][b] = IndexOf(lm, Max3(lm))],
         b_x |-> [m.b_x EXCEPT ![a][b] = IndexOf(lx, Max3(lx))],
         b_y |-> [m.b_y EXCEPT ![a][b] = IndexOf(ly, Max3(ly))]]

\* Lines 144-145: for i in 1..len1, for j in 1..len2, row by row; k counts
\* the cells already filled.
RECURSIVE FillFrom(_, _, _, _, _, _, _)
FillFrom(m, s1, s2, go, ge, f, k) ==
    IF k >= Len(s1) * Len(s2) THEN m
    ELSE FillFrom(FillCell(m, s1, s2, go, ge, f,
                           1 + (k \div Len(s2)), 1 + (k % Len(s2))),
                  s1, s2, go, ge, f, k + 1)

\* Lines 126-164.
FillMatrices(s1, s2, go, ge, f) ==
    FillFrom(InitMatrices(Len(s1), Len(s2), go, ge), s1, s2, go, ge, f, 0)

(***************************************************************************)
(* glob_affine_gap: backtracking.  cur is the index of cur_mat in          *)
(* all_mat = [s_m, s_x, s_y].                                              *)
(***************************************************************************)
all_mat(m) == <<m.s_m, m.s_x, m.s_y>>

\* cur_mat = max(s_m, s_x, s_y, key=lambda x: x[len1][len2]): the first of
\* the largest.
StartMat(m, len1, len2) ==
    LET l == <<m.s_m[len1][len2], m.s_x[len1][len2], m.s_y[len1][len2]>>
    IN  IndexOf(l, Max3(l))

\* Mutant: the Y branch appending None to res2 as the X branch does.
EmitY_bothNone(b) == <<None, None>>

\* The pair appended to (res1, res2) in each branch.
EmitM(a, b) == <<a, b>>
EmitX(a) == <<a, None>>
EmitY(b) == <<None, b>>

\* Lines 167-171.
StartState(m, len1, len2) ==
    [i |-> len1, j |-> len2, cur |-> StartMat(m, len1, len2),
     res1 |-> <<>>, res2 |-> <<>>, steps |-> 0, err |-> FALSE]

\* while i > 0 or j > 0
Looping(st) == ~st.err /\ (st.i > 0 \/ st.j > 0)

\* The indexing a branch performs succeeds (else IndexError).
ReadsOk(st, s1, s2) ==
    /\ st.cur \in {0, 1} => InRange(st.i - 1, Len(s1))
    /\ st.cur \in {0, 2} => InRange(st.j - 1, Len(s2))
    /\ InRange(st.i, Len(s1) + 1)
    /\ InRange(st.j, Len(s2) + 1)

\* b_m[i][j], b_x[i][j] or b_y[i][j] with numpy's negative indexing.
BackPtr(m, st, len1, len2) ==
    LET a == PyIdx(st.i, len1 + 1)
        b == PyIdx(st.j, len2 + 1)
    IN  CASE st.cur = 0 -> m.b_m[a][b]
          [] st.cur = 1 -> m.b_x[a][b]
          [] st.cur = 2 -> m.b_y[a][b]

\* Lines 173-188: one iteration of the while loop.
TraceStep(st, m, s1, s2) ==
    IF ~ReadsOk(st, s1, s2) THEN [st EXCEPT !.err = TRUE]
    ELSE
    LET e == CASE st.cur = 0 -> EmitM(PyGet(s1, st.i - 1), PyGet(s2, st.j - 1))
               [] st.cur = 1 -> EmitX(PyGet(s1, st.i - 1))
               [] st.cur = 2 -> EmitY(PyGet(s2, st.j - 1))
    IN  [i |-> IF st.cur \in {0, 1} THEN st.i - 1 ELSE st.i,
         j |-> IF st.cur \in {0, 2} THEN st.j - 1 ELSE st.j,
         cur |-> BackPtr(m, st, Len(s1), Len(s2)),
         res1 |-> Append(st.res1, e[1]),
         res2 |-> Append(st.res2, e[2]),
         steps |-> st.steps + 1,
         err |-> FALSE]

RECURSIVE TraceAll(_, _, _, _)
TraceAll(st, m, s1, s2) ==
    IF Looping(st) THEN TraceAll(TraceStep(st, m, s1, s2), m, s1, s2) ELSE st

\* The whole function: score, res1[::-1], res2[::-1] (err: IndexError).
glob_affine_gap(s1, s2, go, ge, f) ==
    LET m == FillMatrices(s1, s2, go, ge, f)
        st0 == StartState(m, Len(s1), Len(s2))
        st == TraceAll(st0, m, s1, s2)
    IN  [score |-> all_mat(m)[st0.cur + 1][Len(s1)][Len(s2)],
         res1 |-> Reverse(st.res1), res2 |-> Reverse(st.res2),
         err |-> st.err]

(***************************************************************************)
(* fill_gaps.  open_gap is <<>> for Python's None and <<k>> for the int k. *)
(***************************************************************************)
\* rate = (j - open_gap) / (i - open_gap): both operands are ints, and
\* Python 2's "/" on ints is floor division.
rate(jj, og, ii) == (jj - og) \div (ii - og)

\* Lines 82-83: res = np.zeros(len(alignment)), open_gap.
FillStart(aln) ==
    [res |-> [k \in 1..Len(aln) |-> 0],
     open_gap |-> IF aln[1] # None THEN <<>> ELSE <<0>>]

\* Lines 86-100: one iteration of "for i in xrange(len(alignment))".
FillIter(aln, st, ii) ==
    IF st.open_gap # <<>> THEN
        IF aln[ii + 1] # None THEN
            LET og == st.open_gap[1]
                right == aln[ii + 1]
                left == IF aln[og + 1] = None THEN right ELSE aln[og + 1]
            IN  [res |-> [k \in 1..Len(aln) |->
                            IF og <= k - 1 /\ k - 1 <= ii
                            THEN left + (right - left) * rate(k - 1, og, ii)
                            ELSE st.res[k]],
                 open_gap |-> <<>>]
        ELSE st
    ELSE
        IF aln[ii + 1] # None
        THEN [st EXCEPT !.res[ii + 1] = aln[ii + 1]]
        ELSE [st EXCEPT !.open_gap = <<ii - 1>>]

RECURSIVE FillLoop(_, _, _)
FillLoop(aln, st, ii) ==
    IF ii >= Len(aln) THEN st ELSE FillLoop(aln, FillIter(aln, st, ii), ii + 1)

\* The whole function; alignment[0] of an empty list raises IndexError.
fill_gaps(aln) ==
    IF Len(aln) = 0 THEN [res |-> <<>>, err |-> TRUE]
    ELSE [res |-> FillLoop(aln, FillStart(aln), 0).res, err |-> FALSE]

(***************************************************************************)
(* fit_to_model                                                            *)
(***************************************************************************)
\* Mutant: the trim keeping every column.
Keep_all(aln_model, k) == TRUE

\* Lines 112-115: keep filled_event[i] where aln_model[i] is not None.
Keep(aln_model, k) == aln_model[k] # None

RECURSIVE Trim(_, _, _)
Trim(filled_event, aln_model, k) ==
    IF k > Len(filled_event) THEN <<>>
    ELSE (IF Keep(aln_model, k) THEN <<filled_event[k]>> ELSE <<>>)
         \o Trim(filled_event, aln_model, k + 1)

\* Lines 108-116, given glob_affine_gap's rows.
trim_event(aln_model, aln_event) ==
    LET filled == fill_gaps(aln_event)
    IN  IF filled.err THEN [out |-> <<>>, err |-> TRUE]
        ELSE [out |-> Trim(filled.res, aln_model, 1), err |-> FALSE]

(***************************************************************************)
(* theoretical_signal.  A signal value sqrt(mean(volumes ** 2)) is kept as *)
(* the clipped window it is computed from and the sum of its squared       *)
(* volumes: [start, end, sumsq, n].                                        *)
(***************************************************************************)
VOLUMES ==
    [r \in {"I", "F", "V", "L", "W", "M", "A", "G", "C", "Y",
            "P", "T", "S", "H", "E", "N", "Q", "D", "K", "R"} |->
        CASE r = "I" -> 1688 [] r = "F" -> 2034 [] r = "V" -> 1417
          [] r = "L" -> 1679 [] r = "W" -> 2376 [] r = "M" -> 1708
          [] r = "A" -> 915  [] r = "G" -> 664  [] r = "C" -> 1056
          [] r = "Y" -> 2036 [] r = "P" -> 1293 [] r = "T" -> 1221
          [] r = "S" -> 991  [] r = "H" -> 1673 [] r = "E" -> 1551
          [] r = "N" -> 1359 [] r = "Q" -> 1611 [] r = "D" -> 1245
          [] r = "K" -> 1713 [] r = "R" -> 2021]

\* Residues of the modelled peptides; "X" is not in the table.
Residues == {"A", "G", "X"}

\* VOLUMES.get: None for a residue that is not in the table.
VolumeOf(r) == IF r \in DOMAIN VOLUMES THEN VOLUMES[r] ELSE None

RECURSIVE SumSq(_)
SumSq(w) == IF Len(w) = 0 THEN 0
            ELSE VolumeOf(Head(w)) * VolumeOf(Head(w)) + SumSq(Tail(w))

\* for i in xrange(-window_size + 1, len(peptide) - 1): first value and the
\* exclusive end of the range.
SigFirst(pep, w) == -w + 1
SigStop(pep, w) == Len(pep) - 1

\* Lines 63-65: the value appended for loop index k; None ** 2 raises
\* TypeError (err).
SigValue(pep, w, k) ==
    LET start == Max2(k, 0)
        end == Min2(k + w, Len(pep))
        win == SubSeq(pep, start + 1, end)
    IN  IF \E q \in 1..Len(win) : VolumeOf(win[q]) = None
        THEN [err |-> TRUE, start |-> start, end |-> end, sumsq |-> 0, n |-> Len(win)]
        ELSE [err |-> FALSE, start |-> start, end |-> end,
              sumsq |-> SumSq(win), n |-> Len(win)]

(***************************************************************************)
(* Specification Spec: a call of glob_affine_gap, directly or from         *)
(* fit_to_model.                                                           *)
(***************************************************************************)
FillIdle ==
    /\ alignment = <<>> /\ res = <<>> /\ open_gap = <<>> /\ fi = 0
    /\ fpc = "idle"
SigIdle ==
    /\ peptide = <<>> /\ window_size = 1 /\ signal = <<>> /\ si = 0
    /\ spc = "idle"
AlignIdle ==
    /\ caller = "none" /\ seq1 = <<>> /\ seq2 = <<>>
    /\ gap_open = 0 /\ gap_ext = 0 /\ match_fun = "match"
    /\ pc = "idle" /\ mats = <<>> /\ i = 0 /\ j = 0 /\ cur_mat = 0
    /\ res1 = <<>> /\ res2 = <<>> /\ steps = 0 /\ score = 0
    /\ result = <<>> /\ trimmed_event = <<>>

InitAlign ==
    /\ caller \in {"glob_affine_gap", "fit_to_model"}
    /\ seq1 \in SeqsUpTo(Vals, MaxLen)
    /\ seq2 \in SeqsUpTo(Vals, MaxLen)
    /\ \E p \in (IF caller = "fit_to_model" THEN {<<-2, -1>>} ELSE Penalties) :
          gap_open = p[1] /\ gap_ext = p[2]
    /\ match_fun \in (IF caller = "fit_to_model" THEN {"match"} ELSE MatchFuns)
    /\ pc = "fill" /\ mats = <<>> /\ i = 0 /\ j = 0 /\ cur_mat = 0
    /\ res1 = <<>> /\ res2 = <<>> /\ steps = 0 /\ score = 0
    /\ result = <<>> /\ trimmed_event = <<>>

Init == InitAlign /\ FillIdle /\ SigIdle

\* The traceback state held in the variables.
Cur == [i |-> i, j |-> j, cur |-> cur_mat, res1 |-> res1, res2 |-> res2,
        steps |-> steps, err |-> FALSE]

\* Lines 126-164.
Fill ==
    /\ pc = "fill"
    /\ mats' = FillMatrices(seq1, seq2, gap_open, gap_ext, match_fun)
    /\ pc' = "start"
    /\ UNCHANGED <<caller, seq1, seq2, gap_open, gap_ext, match_fun, i, j,
                   cur_mat, res1, res2, steps, score, result, trimmed_event>>

\* Lines 167-171.
Start ==
    /\ pc = "start"
    /\ LET st == StartState(mats, Len(seq1), Len(seq2))
       IN  /\ i' = st.i /\ j' = st.j /\ cur_mat' = st.cur
           /\ res1' = st.res1 /\ res2' = st.res2 /\ steps' = st.steps
           /\ score' = all_mat(mats)[st.cur + 1][Len(seq1)][Len(seq2)]
    /\ pc' = "loop"
    /\ UNCHANGED <<caller, seq1, seq2, gap_open, gap_ext, match_fun, mats,
                   result, trimmed_event>>

\* One iteration of the while loop in the branch of matrix k.
Step(k) ==
    /\ pc = "loop"
    /\ Looping(Cur)
    /\ cur_mat = k
    /\ LET st == TraceStep(Cur, mats, seq1, seq2)
       IN  /\ i' = st.i /\ j' = st.j /\ cur_mat' = st.cur
           /\ res1' = st.res1 /\ res2' = st.res2 /\ steps' = st.steps
           /\ pc' = IF st.err THEN "traceback_IndexError" ELSE "loop"
    /\ UNCHANGED <<caller, seq1, seq2, gap_open, gap_ext, match_fun, mats,
                   score, result, trimmed_event>>

StepM == Step(0)
StepX == Step(1)
StepY == Step(2)

\* Line 189.
Return ==
    /\ pc = "loop"
    /\ ~Looping(Cur)
    /\ result' = [score |-> score, res1 |-> Reverse(res1), res2 |-> Reverse(res2)]
    /\ pc' = IF caller = "fit_to_model" THEN "fit" ELSE "done"
    /\ UNCHANGED <<caller, seq1, seq2, gap_open, gap_ext, match_fun, mats,
                   i, j, cur_mat, res1, res2, steps, score, trimmed_event>>

\* Lines 108-116 of fit_to_model: fill_gaps(aln_event), then the trim.
FitToModel ==
    /\ pc = "fit"
    /\ LET t == trim_event(result.res1, result.res2)
       IN  /\ trimmed_event' = t.out
           /\ pc' = IF t.err THEN "fill_gaps_IndexError" ELSE "done"
    /\ UNCHANGED <<caller, seq1, seq2, gap_open, gap_ext, match_fun, mats,
                   i, j, cur_mat, res1, res2, steps, score, result>>

Next ==
    \/ (Fill /\ UNCHANGED <<fillVars, sigVars>>)
    \/ (Start /\ UNCHANGED <<fillVars, sigVars>>)
    \/ (StepM /\ UNCHANGED <<fillVars, sigVars>>)
    \/ (StepX /\ UNCHANGED <<fillVars, sigVars>>)
    \/ (StepY /\ UNCHANGED <<fillVars, sigVars>>)
    \/ (Return /\ UNCHANGED <<fillVars, sigVars>>)
    \/ (FitToModel /\ UNCHANGED <<fillVars, sigVars>>)

Spec == Init /\ [][Next]_vars

(***************************************************************************)
(* Specification SpecFill: a call of fill_gaps on a row of reals and gaps. *)
(***************************************************************************)
InitFill ==
    /\ alignment \in SeqsUpTo(FillVals \cup {None}, MaxFillLen)
    /\ res = <<>> /\ open_gap = <<>> /\ fi = 0
    /\ fpc = "enter"
    /\ AlignIdle /\ SigIdle

\* Lines 82-83.
FillEnter ==
    /\ fpc = "enter"
    /\ IF Len(alignment) = 0
       THEN fpc' = "IndexError" /\ UNCHANGED <<res, open_gap>>
       ELSE /\ res' = FillStart(alignment).res
            /\ open_gap' = FillStart(alignment).open_gap
            /\ fpc' = "loop"
    /\ UNCHANGED <<alignment, fi>>

\* Lines 85-100: one iteration of the for loop.
FillIterate ==
    /\ fpc = "loop"
    /\ fi < Len(alignment)
    /\ LET st == FillIter(alignment, [res |-> res, open_gap |-> open_gap], fi)
       IN  res' = st.res /\ open_gap' = st.open_gap
    /\ fi' = fi + 1
    /\ UNCHANGED <<alignment, fpc>>

\* Line 101.
FillReturn ==
    /\ fpc = "loop"
    /\ fi >= Len(alignment)
    /\ fpc' = "done"
    /\ UNCHANGED <<alignment, res, open_gap, fi>>

NextFill ==
    \/ (FillEnter /\ UNCHANGED <<alignVars, sigVars>>)
    \/ (FillIterate /\ UNCHANGED <<alignVars, sigVars>>)
    \/ (FillReturn /\ UNCHANGED <<alignVars, sigVars>>)

SpecFill == InitFill /\ [][NextFill]_vars

(***************************************************************************)
(* Specification SpecSignal: a call of theoretical_signal.                 *)
(***************************************************************************)
InitSignal ==
    /\ peptide \in SeqsUpTo(Residues, MaxPeptide)
    /\ window_size \in 1..MaxWindow
    /\ signal = <<>> /\ si = 0
    /\ spc = "enter"
    /\ AlignIdle /\ FillIdle

\* Lines 61-62: signal = [], the loop variable at the start of its range.
SigEnter ==
    /\ spc = "enter"
    /\ signal' = <<>>
    /\ si' = SigFirst(peptide, window_size)
    /\ spc' = "loop"
    /\ UNCHANGED <<peptide, window_size>>

\* Lines 63-67: one iteration.
SigIterate ==
    /\ spc = "loop"
    /\ si < SigStop(peptide, window_size)
    /\ LET v == SigValue(peptide, window_size, si)
       IN  IF v.err
           THEN spc' = "TypeError" /\ UNCHANGED <<signal, si>>
           ELSE /\ signal' = Append(signal, v)
                /\ si' = si + 1
                /\ spc' = "loop"
    /\ UNCHANGED <<peptide, window_size>>

\* Line 68.
SigReturn ==
    /\ spc = "loop"
    /\ si >= SigStop(peptide, window_size)
    /\ spc' = "done"
    /\ UNCHANGED <<peptide, window_size, signal, si>>

NextSignal ==
    \/ (SigEnter /\ UNCHANGED <<alignVars, fillVars>>)
    \/ (SigIterate /\ UNCHANGED <<alignVars, fillVars>>)
    \/ (SigReturn /\ UNCHANGED <<alignVars, fillVars>>)

SpecSignal == InitSignal /\ [][NextSignal]_vars

(***************************************************************************)
(* Reference notions the claims are stated with.                           *)
(***************************************************************************)
SetMax(S) == CHOOSE x \in S : \A y \in S : y <= x

\* The best score over all global alignments of s1[a+1..] with s2[b+1..],
\* given the kind of the previous column ("M", "X", "Y" or "-" for none): a
\* gap column costs ge when it continues a run on the same side, go otherwise.
RECURSIVE BestFrom(_, _, _, _, _, _, _, _)
BestFrom(s1, s2, go, ge, f, a, b, prev) ==
    IF a = Len(s1) /\ b = Len(s2) THEN 0
    ELSE SetMax(
        (IF a < Len(s1) /\ b < Len(s2)
         THEN {Apply(f, s1[a + 1], s2[b + 1])
               + BestFrom(s1, s2, go, ge, f, a + 1, b + 1, "M")}
         ELSE {})
        \cup
        (IF a < Len(s1)
         THEN {(IF prev = "X" THEN ge ELSE go)
               + BestFrom(s1, s2, go, ge, f, a + 1, b, "X")}
         ELSE {})
        \cup
        (IF b < Len(s2)
         THEN {(IF prev = "Y" THEN ge ELSE go)
               + BestFrom(s1, s2, go, ge, f, a, b + 1, "Y")}
         ELSE {}))
BestScore(s1, s2, go, ge, f) == BestFrom(s1, s2, go, ge, f, 0, 0, "-")

\* A row with its gap markers removed.
RECURSIVE RemoveGaps(_)
RemoveGaps(row) ==
    IF Len(row) = 0 THEN <<>>
    ELSE (IF Head(row) = None THEN <<>> ELSE <<Head(row)>>) \o RemoveGaps(Tail(row))

HasGap(row) == \E k \in 1..Len(row) : row[k] = None
NoDoubleGap(r1, r2) ==
    /\ Len(r1) = Len(r2)
    /\ \A k \in 1..Len(r1) : ~(r1[k] = None /\ r2[k] = None)

\* The column of row that holds its n-th real value.
ColumnOf(row, n) ==
    CHOOSE c \in 1..Len(row) :
        /\ row[c] # None
        /\ Cardinality({d \in 1..c : row[d] # None}) = n

Returned == pc \in {"fit", "done"}
Direct == caller = "glob_affine_gap"
\* match_fun(x, x) of the modelled functions with a positive constant diagonal.
DiagConst(f) == CASE f = "match" -> 10 [] f = "unit" -> 1 [] f = "offdiag" -> 1
                  [] OTHER -> 0
\* Those with match_fun(x, y) <= match_fun(x, x) for all x, y.
DiagMax == {"match", "unit"}

(***************************************************************************)
(* Claims.                                                                 *)
(***************************************************************************)

\* C1: for non-empty seq1, seq2 and gap_open < 0, gap_ext < 0, the score
\* glob_affine_gap returns is the maximum over all global alignments of the
\* sum of match_fun over aligned pairs plus gap_open + (n-1)*gap_ext for
\* every maximal run of n gap columns on one side.
C1_ScoreIsOptimum ==
    (Returned /\ Len(seq1) > 0 /\ Len(seq2) > 0 /\ gap_open < 0 /\ gap_ext < 0)
    => result.score = BestScore(seq1, seq2, gap_open, gap_ext, match_fun)

\* C2: the two rows built by the traceback, and the two rows returned, have
\* equal length and no column is a gap in both.
C2_NeverBothGap ==
    /\ NoDoubleGap(res1, res2)
    /\ Returned => NoDoubleGap(result.res1, result.res2)
C2_Witness ==
    /\ pc = "done" /\ Len(seq1) > 0 /\ Len(seq2) > 0
    /\ HasGap(result.res1) /\ HasGap(result.res2)
    /\ \E k \in 1..Len(result.res1) :
          result.res1[k] # None /\ result.res2[k] # None

\* C7 as claimed: with a symmetric match_fun, glob_affine_gap(A, B) and
\* glob_affine_gap(B, A) return equal scores and mirrored rows (A's row of
\* one call is A's row of the other, and likewise B's).
C7_Mirrored ==
    (pc = "done" /\ Direct /\ match_fun \in Symmetric)
    => LET r == glob_affine_gap(seq2, seq1, gap_open, gap_ext, match_fun)
       IN  /\ r.score = result.score
           /\ r.res2 = result.res1
           /\ r.res1 = result.res2

\* C7 as amended: with a symmetric match_fun the two calls return equal
\* scores (the rows need not mirror: ties between the two gap states are
\* broken in the fixed order M, X, Y in both calls).
C7_ScoreSymmetric ==
    (pc = "done" /\ Direct /\ match_fun \in Symmetric)
    => glob_affine_gap(seq2, seq1, gap_open, gap_ext, match_fun).score
         = result.score
C7_Witness ==
    /\ pc = "done" /\ Direct /\ match_fun \in Symmetric
    /\ Len(seq1) > 0 /\ Len(seq2) > Len(seq1)
    /\ HasGap(result.res1)
    /\ glob_affine_gap(seq2, seq1, gap_open, gap_ext, match_fun).res2
         # result.res1

C9_TracebackInBounds ==
    /\ pc # "traceback_IndexError"
    /\ 0 <= i /\ i <= Len(seq1) /\ 0 <= j /\ j <= Len(seq2)
    /\ cur_mat \in {0, 1, 2}
    /\ steps + i + j <= Len(seq1) + Len(seq2)
    /\ (pc = "loop" /\ (i > 0 \/ j > 0)) =>
          /\ cur_mat = 0 => (i > 0 /\ j > 0)
          /\ cur_mat = 1 => i > 0
          /\ cur_mat = 2 => j > 0
    /\ Returned => (i = 0 /\ j = 0)
C9_Witness ==
    /\ pc = "done" /\ Len(seq1) = 0 /\ Len(seq2) >= 2
    /\ steps = Len(seq2) /\ i = 0 /\ j = 0

\* C10: for non-empty traces the model-side row without its gap markers is
\* model_trace, and fit_to_model returns len(model_trace) values, the k-th
\* being the gap-filled event value of the column holding model_trace[k].
C10_ProjectsOntoModel ==
    (Returned /\ Len(seq1) > 0 /\ Len(seq2) > 0) =>
        /\ RemoveGaps(result.res1) = seq1
        /\ (pc = "done" /\ caller = "fit_to_model") =>
              /\ Len(trimmed_event) = Len(seq1)
              /\ \A k \in 1..Len(trimmed_event) :
                    trimmed_event[k] =
                      fill_gaps(result.res2).res[ColumnOf(result.res1, k)]
C10_Witness ==
    /\ pc = "done" /\ caller = "fit_to_model"
    /\ Len(seq1) > 1 /\ Len(seq2) > 0
    /\ HasGap(result.res1) /\ HasGap(result.res2)
    /\ Len(trimmed_event) = Len(seq1)

\* Real values and gap runs of the row given to fill_gaps.
IsReal(k) == alignment[k] # None
HasReal == \E k \in 1..Len(alignment) : IsReal(k)
FirstReal == CHOOSE k \in 1..Len(alignment) :
                 IsReal(k) /\ \A d \in 1..(k - 1) : ~IsReal(d)
LastReal == CHOOSE k \in 1..Len(alignment) :
                 IsReal(k) /\ \A d \in (k + 1)..Len(alignment) : ~IsReal(d)

\* C3: a gap run between the real values L at index a and R at index b is
\* filled with L + (R - L) * (k - a) / (b - a), the division exact (stated
\* multiplied out by b - a); [2, gap, gap, 8] gives [2, 4, 6, 8].
C3_LinearInterpolation ==
    fpc = "done" =>
        /\ \A a, b \in 1..Len(alignment) :
              (a < b /\ IsReal(a) /\ IsReal(b)
                 /\ \A d \in (a + 1)..(b - 1) : ~IsReal(d))
              => \A k \in a..b :
                    res[k] * (b - a)
                      = alignment[a] * (b - a)
                          + (alignment[b] - alignment[a]) * (k - a)
        /\ alignment = <<2, None, None, 8>> => res = <<2, 4, 6, 8>>

\* C4: with at least one real value in the row, a leading gap run is filled
\* with the first real value and a trailing gap run with the last one, and
\* no gap position keeps the placeholder 0.
C4_OpenBoundaryFlat ==
    (fpc = "done" /\ HasReal) =>
        /\ \A k \in 1..(FirstReal - 1) : res[k] = alignment[FirstReal]
        /\ \A k \in (LastReal + 1)..Len(alignment) : res[k] = alignment[LastReal]
        /\ \A k \in 1..Len(alignment) : ~IsReal(k) => res[k] # 0

\* C5: fill_gaps on a non-empty row of gap markers only ends in an error and
\* does not return (a row of zeros).
C5_GapOnlyIsError ==
    (Len(alignment) > 0 /\ ~HasReal) => fpc # "done"

\* C6: for a peptide of length >= 1 over the volume table, the signal has
\* len(peptide) + window_size - 1 values; for "AG" and window 2 the first
\* and the last value each come from a single-residue window.
C6_SignalLength ==
    (spc = "done" /\ Len(peptide) >= 1
       /\ \A q \in 1..Len(peptide) : peptide[q] \in DOMAIN VOLUMES)
    => /\ Len(signal) = Len(peptide) + window_size - 1
       /\ (peptide = <<"A", "G">> /\ window_size = 2) =>
             /\ Len(signal) = 3
             /\ signal[1].n = 1
             /\ signal[Len(signal)].n = 1

====
